---------------------------- MODULE Spec2Model ----------------------------
(***************************************************************************)
(* Model of merlin/server/server_util.py: the redis.conf store             *)
(* (RedisConfig), the redis.users registry (RedisUsers), its               *)
(* reconciliation against a live redis server (apply_to_redis), and the    *)
(* configuration profiles (ServerConfig and its three parts).              *)
(*                                                                         *)
(* Python strings are sequences of one-character strings, so that          *)
(* str.split, slicing, int() and str() are computed character by           *)
(* character.  Python values stored in RedisConfig.entries are tagged      *)
(* records (TStr / TInt), because the code stores both str and int there.  *)
(* Python class attributes that are mutated in place (RedisConfig.         *)
(* entry_order, RedisUsers.users) are single variables shared by all       *)
(* instances, as they are in the interpreter.                              *)
(***************************************************************************)
EXTENDS Integers, Sequences, FiniteSets, TLC

VARIABLES
    files,        \* config files on disk: filename -> content (a string)
    entry_order,  \* RedisConfig.entry_order, the class-level list
    store,        \* RedisConfig instances: store id -> NoStore or its fields
    ufiles,       \* users files on disk: filename -> NoFile or the YAML mapping
    cls_users,    \* RedisUsers.users, the class-level dict
    reg,          \* RedisUsers instances: registry id -> NoReg or its fields
    server,       \* ACL users of the live redis server: name -> attributes
    acl_log,      \* the commands the last apply_to_redis sent, in order
    cfg_data,     \* the parsed configuration dictionary the profiles are built from
    profile,      \* the profile object constructed from cfg_data, None before
    nops,         \* number of operations performed so far
    last          \* the last operation: its name, receiver, arguments, result

vars == <<files, entry_order, store, ufiles, cls_users, reg, server,
          acl_log, cfg_data, profile, nops, last>>

cfgVars == <<files, entry_order, store>>
usrVars == <<ufiles, cls_users, reg, server, acl_log>>
prfVars == <<cfg_data, profile>>

-----------------------------------------------------------------------------
(* Bounds of the model. *)

\* lines per initial configuration file
MaxLines == 2
\* operations on configuration stores per behaviour
MaxOps == 3
\* operations on user registries per behaviour
MaxUserOps == 3

-----------------------------------------------------------------------------
(* Python strings. *)

NL  == "\n"
SP  == " "
TAB == "\t"

\* characters str.split() (no separator) and str.strip() treat as whitespace
IsSpace(c) == c \in {SP, TAB, NL}

Digits == <<"0", "1", "2", "3", "4", "5", "6", "7", "8", "9">>

IsDigit(c) == \E d \in 1..10 : Digits[d] = c

DigitVal(c) == (CHOOSE d \in 1..10 : Digits[d] = c) - 1

Drop(s, n) == SubSeq(s, n + 1, Len(s))

\* number of leading characters of s that are (isSp = TRUE) / are not
\* (isSp = FALSE) whitespace
RECURSIVE Run(_, _)
Run(s, isSp) ==
    IF s = <<>> \/ IsSpace(s[1]) # isSp THEN 0 ELSE 1 + Run(Tail(s), isSp)

\* s.split(sep) for a one-character separator: a list of Len-many pieces
RECURSIVE SplitOn(_, _)
SplitOn(s, sep) ==
    IF \A i \in 1..Len(s) : s[i] # sep
    THEN <<s>>
    ELSE LET k == CHOOSE i \in 1..Len(s) :
                      s[i] = sep /\ \A j \in 1..(i - 1) : s[j] # sep
         IN  <<SubSeq(s, 1, k - 1)>> \o SplitOn(Drop(s, k), sep)

\* s.split(maxsplit=1): leading whitespace is skipped, the first token ends
\* at the next whitespace run, which is skipped too; what follows is kept
\* whole.  0, 1 or 2 pieces.
SplitMax1(s) ==
    LET a    == Drop(s, Run(s, TRUE))
        n    == Run(a, FALSE)
        b    == Drop(a, n)
        rest == Drop(b, Run(b, TRUE))
    IN  IF a = <<>> THEN <<>>
        ELSE IF rest = <<>> THEN <<SubSeq(a, 1, n)>>
        ELSE <<SubSeq(a, 1, n), rest>>

\* s.split(): every whitespace-separated token
RECURSIVE SplitAll(_)
SplitAll(s) ==
    LET a == Drop(s, Run(s, TRUE))
        n == Run(a, FALSE)
    IN  IF a = <<>> THEN <<>> ELSE <<SubSeq(a, 1, n)>> \o SplitAll(Drop(a, n))

\* sep.join(list)
RECURSIVE Join(_, _)
Join(list, sep) ==
    IF list = <<>> THEN <<>>
    ELSE IF Len(list) = 1 THEN list[1]
    ELSE list[1] \o sep \o Join(Tail(list), sep)

\* s.strip()
RECURSIVE RStrip(_)
RStrip(s) ==
    IF s # <<>> /\ IsSpace(s[Len(s)]) THEN RStrip(SubSeq(s, 1, Len(s) - 1)) ELSE s

Strip(s) == RStrip(Drop(s, Run(s, TRUE)))

\* str(n) for an integer n
RECURSIVE NatStr(_)
NatStr(n) == IF n < 10 THEN <<Digits[n + 1]>>
             ELSE NatStr(n \div 10) \o <<Digits[(n % 10) + 1]>>

IntStr(n) == IF n < 0 THEN <<"-">> \o NatStr(0 - n) ELSE NatStr(n)

\* int(s): surrounding whitespace stripped, an optional sign, then digits;
\* anything else raises ValueError
IntBody(s) ==
    LET t == Strip(s) IN IF t # <<>> /\ t[1] \in {"+", "-"} THEN Tail(t) ELSE t

IntOk(s) == IntBody(s) # <<>> /\ \A i \in 1..Len(IntBody(s)) : IsDigit(IntBody(s)[i])

RECURSIVE DigitsVal(_)
DigitsVal(s) == IF s = <<>> THEN 0
                ELSE 10 * DigitsVal(SubSeq(s, 1, Len(s) - 1)) + DigitVal(s[Len(s)])

IntOf(s) == IF Strip(s)[1] = "-" THEN 0 - DigitsVal(IntBody(s)) ELSE DigitsVal(IntBody(s))

-----------------------------------------------------------------------------
(* Python values held in RedisConfig.entries. *)

TStr(s) == [t |-> "str", s |-> s, n |-> 0]
TInt(n) == [t |-> "int", s |-> <<>>, n |-> n]

\* f"{value}"
Format(v) == IF v.t = "int" THEN IntStr(v.n) ELSE v.s

\* None, as get_config_value returns it
None == [t |-> "None", s |-> <<>>, n |-> 0]

\* d[k] = v on a dict modelled as a function
DictSet(d, k, v) == [x \in DOMAIN d \cup {k} |-> IF x = k THEN v ELSE d[x]]

EmptyDict == [x \in {} |-> 0]


-----------------------------------------------------------------------------
(* Strings the code names. *)

BIND  == <<"b", "i", "n", "d">>
PORT  == <<"p", "o", "r", "t">>
SAVE  == <<"s", "a", "v", "e">>

REQUIREPASS    == <<"r", "e", "q", "u", "i", "r", "e", "p", "a", "s", "s">>
DIR            == <<"d", "i", "r">>
DBFILENAME     == <<"d", "b", "f", "i", "l", "e", "n", "a", "m", "e">>
APPENDFSYNC    == <<"a", "p", "p", "e", "n", "d", "f", "s", "y", "n", "c">>
APPENDFILENAME == <<"a", "p", "p", "e", "n", "d", "f", "i", "l", "e", "n", "a", "m", "e">>

\* the key parse() gives a second `save` line whose second token is 300
SAVE_300 == SAVE \o <<SP, "3", "0", "0">>

-----------------------------------------------------------------------------
(* valid_ipv4, valid_port.  A result is "True", "False" or the name of the *)
(* exception raised.                                                       *)

\* the loop over the four pieces: int(i) raises ValueError on a piece that
\* is no integer literal
RECURSIVE valid_ipv4_loop(_)
valid_ipv4_loop(arr) ==
    IF arr = <<>> THEN "True"
    ELSE IF ~IntOk(arr[1]) THEN "ValueError"
    ELSE IF IntOf(arr[1]) < 0 /\ IntOf(arr[1]) > 255 THEN "False"
    ELSE valid_ipv4_loop(Tail(arr))

valid_ipv4(ip) ==
    IF ip = <<>> THEN "False"
    ELSE IF Len(SplitOn(ip, ".")) # 4 THEN "False"
    ELSE valid_ipv4_loop(SplitOn(ip, "."))

\* port > 0 and port < 65536; comparing a str with an int raises TypeError
valid_port(port) ==
    IF port.t # "int" THEN "TypeError"
    ELSE IF port.n > 0 /\ port.n < 65536 THEN "True"
    ELSE "False"

-----------------------------------------------------------------------------
(* The configuration profiles: ContainerConfig, ContainerFormatConfig,     *)
(* ProcessConfig and ServerConfig.  A dictionary is a function from its    *)
(* keys; an object is the record of its attributes.                        *)

\* data[key] if key in data else default
FieldOr(d, key, default) == IF key \in DOMAIN d THEN d[key] ELSE default

FORMAT == "singularity"
IMAGE_NAME == "redis_latest.sif"
REDIS_URL == "docker://redis"
CONFIG_FILE == "redis.conf"
CONFIG_DIR == "./merlin_server/"
PROCESS_FILE == "merlin_server.pf"
PASSWORD_FILE == "redis.pass"
USERS_FILE == "redis.users"

ContainerConfig(d) ==
    [format     |-> FieldOr(d, "format", FORMAT),
     image      |-> FieldOr(d, "image", IMAGE_NAME),
     url        |-> FieldOr(d, "url", REDIS_URL),
     config     |-> FieldOr(d, "config", CONFIG_FILE),
     config_dir |-> FieldOr(d, "config_dir", CONFIG_DIR),
     pfile      |-> FieldOr(d, "pfile", PROCESS_FILE),
     pass_file  |-> FieldOr(d, "pass_file", PASSWORD_FILE),
     user_file  |-> FieldOr(d, "user_file", USERS_FILE)]

COMMAND == "singularity"
RUN_COMMAND == "{command} run {image} {config}"
STOP_COMMAND == "kill"
PULL_COMMAND == "{command} pull {image} {url}"

ContainerFormatConfig(d) ==
    [command      |-> FieldOr(d, "command", COMMAND),
     run_command  |-> FieldOr(d, "run_command", RUN_COMMAND),
     stop_command |-> FieldOr(d, "stop_command", STOP_COMMAND),
     pull_command |-> FieldOr(d, "pull_command", PULL_COMMAND)]

STATUS_COMMAND == "pgrep -P {pid}"
KILL_COMMAND == "kill {pid}"

ProcessConfig(d) ==
    [status |-> FieldOr(d, "status", STATUS_COMMAND),
     kill   |-> FieldOr(d, "kill", KILL_COMMAND)]

\* ServerConfig.__init__: container, process and container_format are class
\* attributes holding None, assigned only when the section is in data; with
\* no container section, self.container.get_format() is called on None.
\* obj is the object the caller gets, None when __init__ raises.
ServerConfig(d) ==
    LET process == IF "process" \in DOMAIN d THEN ProcessConfig(d["process"])
                   ELSE None
    IN  IF "container" \notin DOMAIN d
        THEN [obj |-> None, ret |-> "AttributeError"]
        ELSE LET container == ContainerConfig(d["container"]) IN
             [obj |-> [container |-> container,
                       process |-> process,
                       container_format |->
                           IF container.format \in DOMAIN d
                           THEN ContainerFormatConfig(d[container.format])
                           ELSE None],
              ret |-> "None"]

\* no configuration dictionary or profile takes part
InitProfilesIdle ==
    /\ cfg_data = EmptyDict
    /\ profile = None

-----------------------------------------------------------------------------
(* RedisConfig. *)

Stores == {"s1", "s2"}

NoStore == [alive |-> FALSE]

\* the instance attributes parse() reads and assigns, before it runs
NewStore(filename) ==
    [alive |-> TRUE, filename |-> filename, entries |-> EmptyDict,
     comments |-> EmptyDict, trailing_comments |-> <<>>, changed |-> FALSE]

\* lines 245-248: the entry is appended to the class-level entry_order and
\* recorded with the comment block collected before it
RecordEntry(acc, key, value) ==
    [acc EXCEPT !.order    = Append(@, key),
                !.entries  = DictSet(@, key, TStr(value)),
                !.comments = DictSet(@, key, acc.pending),
                !.pending  = <<>>]

\* the body of parse()'s loop for one line
ParseLine(acc, line) ==
    IF Len(line) > 0 /\ line[1] # "#"
    THEN LET lc == SplitMax1(line) IN
         IF Len(lc) = 0
         THEN [acc EXCEPT !.err = "IndexError"]
         ELSE IF lc[1] \in DOMAIN acc.entries
         THEN IF Len(lc) < 2
              THEN [acc EXCEPT !.err = "IndexError"]
              ELSE LET sub == SplitMax1(lc[2]) IN
                   IF Len(sub) < 2
                   THEN [acc EXCEPT !.err = "IndexError"]
                   ELSE RecordEntry(acc, lc[1] \o <<SP>> \o sub[1], sub[2])
         ELSE IF Len(lc) < 2
              THEN [acc EXCEPT !.order = Append(@, lc[1]), !.err = "IndexError"]
              ELSE RecordEntry(acc, lc[1], lc[2])
    ELSE [acc EXCEPT !.pending = @ \o line \o <<NL>>]

RECURSIVE ParseLines(_, _)
ParseLines(acc, lines) ==
    IF lines = <<>> \/ acc.err # "" THEN acc
    ELSE ParseLines(ParseLine(acc, Head(lines)), Tail(lines))

\* comments[:-1]
DropLast(s) == IF s = <<>> THEN s ELSE SubSeq(s, 1, Len(s) - 1)

\* parse() of a store on `content`, the class-level list being `order`:
\* the store and the list afterwards, and the exception raised, if any
parse(st, order, content) ==
    LET acc == ParseLines([order |-> order, entries |-> EmptyDict,
                           comments |-> EmptyDict, pending |-> <<>>, err |-> ""],
                          SplitOn(content, NL))
    IN  [st    |-> [st EXCEPT !.entries  = acc.entries,
                              !.comments = acc.comments,
                              !.trailing_comments =
                                  IF acc.err = "" THEN DropLast(acc.pending) ELSE @],
         order |-> acc.order,
         err   |-> acc.err]

\* write(): the text written to the file, and the exception raised, if any
\* (self.comments[entry] raises KeyError on a key the store does not hold)
RECURSIVE WriteEntries(_, _, _)
WriteEntries(st, order, out) ==
    IF order = <<>> THEN [out |-> out \o st.trailing_comments, err |-> ""]
    ELSE IF Head(order) \notin DOMAIN st.comments THEN [out |-> out, err |-> "KeyError"]
    ELSE WriteEntries(st, Tail(order),
                      out \o st.comments[Head(order)] \o Head(order) \o <<SP>>
                          \o Format(st.entries[Head(order)]) \o <<NL>>)

write(st, order) == WriteEntries(st, order, <<>>)

\* set_config_value without the membership test: a missing key is inserted
set_config_value_inserting(st, key, value) ==
    [st |-> [st EXCEPT !.entries = DictSet(@, key, value), !.changed = TRUE],
     ret |-> "True"]

set_config_value(st, key, value) ==
    IF key \notin DOMAIN st.entries
    THEN [st |-> st, ret |-> "False"]
    ELSE [st |-> [st EXCEPT !.entries[key] = value, !.changed = TRUE], ret |-> "True"]

get_config_value(st, key) ==
    IF key \in DOMAIN st.entries THEN st.entries[key] ELSE None

get_ip_address(st) == get_config_value(st, BIND)

get_port(st) == get_config_value(st, PORT)

set_ip_address(st, ipaddress) ==
    IF ipaddress = None THEN [st |-> st, ret |-> "False"]
    ELSE LET ok == valid_ipv4(ipaddress.s) IN
         IF ok = "True" THEN set_config_value(st, BIND, ipaddress)
         ELSE [st |-> st, ret |-> ok]

set_port(st, port) ==
    IF port = None THEN [st |-> st, ret |-> "False"]
    ELSE LET ok == valid_port(port) IN
         IF ok = "True" THEN set_config_value(st, PORT, port)
         ELSE [st |-> st, ret |-> ok]

\* set_password: the result of set_config_value is not looked at
set_password(st, password) ==
    IF password = None THEN [st |-> st, ret |-> "False"]
    ELSE [st |-> set_config_value(st, REQUIREPASS, password).st, ret |-> "True"]

\* the directories os.path.exists() finds
ExistingDirs == {<<"/", "t", "m", "p">>}

set_directory(st, directory) ==
    IF directory = None THEN [st |-> st, ret |-> "False"]
    ELSE IF directory.s \in ExistingDirs THEN set_config_value(st, DIR, directory)
    ELSE [st |-> st, ret |-> "False"]

\* set_snapshot_seconds (pos = 1) and set_snapshot_changes (pos = 2): the
\* token at `pos` of the `save` value is replaced by str(n); value[pos]
\* raises IndexError when the value has fewer tokens
set_snapshot_token(st, pos, n) ==
    IF n = None THEN [st |-> st, ret |-> "False"]
    ELSE LET value == get_config_value(st, SAVE) IN
         IF value = None THEN [st |-> st, ret |-> "False"]
         ELSE LET tokens == SplitAll(value.s) IN
              IF Len(tokens) < pos THEN [st |-> st, ret |-> "IndexError"]
              ELSE set_config_value(st, SAVE,
                       TStr(Join([tokens EXCEPT ![pos] = Format(n)], <<SP>>)))

set_snapshot_seconds(st, seconds) == set_snapshot_token(st, 1, seconds)

set_snapshot_changes(st, changes) == set_snapshot_token(st, 2, changes)

set_snapshot_file(st, file) ==
    IF file = None THEN [st |-> st, ret |-> "False"]
    ELSE set_config_value(st, DBFILENAME, file)

valid_modes == {<<"a", "l", "w", "a", "y", "s">>, <<"e", "v", "e", "r", "y", "s", "e", "c">>, <<"n", "o">>}

set_append_mode(st, mode) ==
    IF mode = None THEN [st |-> st, ret |-> "False"]
    ELSE IF mode.s \in valid_modes THEN set_config_value(st, APPENDFSYNC, mode)
    ELSE [st |-> st, ret |-> "False"]

set_append_file(st, file) ==
    IF file = None THEN [st |-> st, ret |-> "False"]
    ELSE set_config_value(st, APPENDFILENAME, file)

-----------------------------------------------------------------------------
(* The configuration files the model starts from, and the setters' inputs. *)

L_COMMENT == <<"#", " ", "c">>
L_BLANK   == <<>>
L_PORT    == PORT \o <<SP, "6", "3", "7", "9">>
L_BIND    == BIND \o <<SP, "1", ".", "2", ".", "3", ".", "4">>
L_SAVE1   == SAVE \o <<SP, "9", "0", "0", SP, "1">>
L_SAVE2   == SAVE \o <<SP, "3", "0", "0", SP, "1", "0">>
L_TABBED  == SAVE \o <<TAB, "6", "0", SP, SP, "5">>
L_BARE    == <<"d", "a", "e", "m", "o", "n", "i", "z", "e">>

LineSet == {L_COMMENT, L_BLANK, L_PORT, L_SAVE1, L_SAVE2, L_TABBED, L_BARE}

\* every file of at most MaxLines lines, with and without a final newline
FileSet ==
    { Join(ls, <<NL>>) \o fin :
        ls \in UNION { [1..k -> LineSet] : k \in 0..MaxLines },
        fin \in {<<>>, <<NL>>} }

\* a second configuration file, for a second store
OtherConf == L_COMMENT \o <<NL>> \o L_PORT \o <<NL>> \o L_BIND \o <<NL>>

CfgNames == {"redis.conf", "other.conf"}

IP_OK      == <<"1", "0", ".", "0", ".", "0", ".", "1">>
IP_RANGE   == <<"9", "9", "9", ".", "9", "9", "9", ".", "1", ".", "1">>
IP_SHORT   == <<"1", ".", "2", ".", "3">>

IpArgs == {TStr(IP_OK), TStr(IP_RANGE), TStr(IP_SHORT)}

PortArgs == {TInt(0), TInt(6379), TInt(65535), TInt(65536), TInt(70000)}

MAXCLIENTS == <<"m", "a", "x", "c", "l", "i", "e", "n", "t", "s">>

KeyArgs == {SAVE, SAVE_300, MAXCLIENTS}

ValueArgs == {TStr(<<"6", "0", SP, "1", "0", "0">>)}

-----------------------------------------------------------------------------
(* The operations on RedisConfig, one action per call. *)

Op(name, id, arg, ret) == [op |-> name, id |-> id, arg |-> arg, ret |-> ret]

Step == nops < MaxOps /\ nops' = nops + 1

\* RedisConfig(filename): __init__ runs parse(); when parse() raises, no
\* instance comes back, but what parse() appended to the class-level list stays
Construct(i, f) ==
    /\ Step
    /\ ~store[i].alive
    /\ LET r == parse(NewStore(f), entry_order, files[f]) IN
       /\ entry_order' = r.order
       /\ store' = [store EXCEPT ![i] = IF r.err = "" THEN r.st ELSE NoStore]
       /\ last' = Op("construct", i, f, IF r.err = "" THEN "None" ELSE r.err)
    /\ UNCHANGED <<files, usrVars, prfVars>>

Write(i) ==
    /\ Step
    /\ store[i].alive
    /\ LET r == write(store[i], entry_order) IN
       /\ files' = [files EXCEPT ![store[i].filename] = r.out]
       /\ last' = Op("write", i, <<>>, IF r.err = "" THEN "None" ELSE r.err)
    /\ UNCHANGED <<entry_order, store, usrVars, prfVars>>

\* a setter: `r` is the store afterwards and the value returned
Setter(name, i, arg, r) ==
    /\ Step
    /\ store' = [store EXCEPT ![i] = r.st]
    /\ last' = Op(name, i, arg, r.ret)
    /\ UNCHANGED <<files, entry_order, usrVars, prfVars>>

SetConfigValue(i, key, value) ==
    /\ store[i].alive
    /\ Setter("set_config_value", i, <<key, value>>, set_config_value(store[i], key, value))

SetIpAddress(i, ip) ==
    /\ store[i].alive
    /\ Setter("set_ip_address", i, ip, set_ip_address(store[i], ip))

SetPort(i, port) ==
    /\ store[i].alive
    /\ Setter("set_port", i, port, set_port(store[i], port))

\* no users file, registry or server takes part
InitUsersIdle ==
    /\ ufiles = EmptyDict
    /\ cls_users = EmptyDict
    /\ reg = EmptyDict
    /\ server = EmptyDict
    /\ acl_log = <<>>

\* a fresh interpreter: the class-level list is empty, no store exists
InitConfig ==
    /\ files \in { [f \in CfgNames |-> IF f = "redis.conf" THEN c ELSE OtherConf] :
                     c \in FileSet }
    /\ entry_order = <<>>
    /\ store = [i \in Stores |-> NoStore]
    /\ nops = 0
    /\ last = Op("init", "", <<>>, "None")
    /\ InitUsersIdle
    /\ InitProfilesIdle

NextConfig ==
    \E i \in Stores :
        \/ \E f \in CfgNames : Construct(i, f)
        \/ Write(i)
        \/ \E k \in KeyArgs, v \in ValueArgs : SetConfigValue(i, k, v)
        \/ \E ip \in IpArgs : SetIpAddress(i, ip)
        \/ \E p \in PortArgs : SetPort(i, p)

SpecConfig == InitConfig /\ [][NextConfig]_vars

-----------------------------------------------------------------------------
(* One store and every method of RedisConfig: parse() called again, and    *)
(* all the typed setters, on files that hold the setters' keys or lack one.*)

\* the lines of a configuration file holding every key a typed setter writes
StoreLines ==
    <<L_BIND,
      L_PORT,
      REQUIREPASS \o <<SP>> \o <<"p", "w">>,
      DIR \o <<SP>> \o <<"/", "v", "a", "r">>,
      L_SAVE1,
      DBFILENAME \o <<SP>> \o <<"d", ".", "r", "d", "b">>,
      APPENDFSYNC \o <<SP>> \o <<"n", "o">>,
      APPENDFILENAME \o <<SP>> \o <<"a", ".", "a", "o", "f">> >>

\* the file with these lines, each ended by a newline
RECURSIVE FileOfLines(_)
FileOfLines(ls) ==
    IF ls = <<>> THEN <<>> ELSE Head(ls) \o <<NL>> \o FileOfLines(Tail(ls))

\* the full file (k = 0), the full file without its k-th line, the full
\* file with `save 900` as its save line, and a file of three `save` lines
\* of which two share the second token
StoreFileSet ==
    { FileOfLines(SubSeq(StoreLines, 1, k - 1)
                    \o SubSeq(StoreLines, k + 1, Len(StoreLines))) :
        k \in 0..Len(StoreLines) }
      \cup { FileOfLines([StoreLines EXCEPT ![5] = SAVE \o <<SP, "9", "0", "0">>]),
             FileOfLines(<<L_SAVE1, L_SAVE2, L_SAVE2>>) }

StoreIpArgs == IpArgs \cup {TStr(<<"a", ".", "b", ".", "c", ".", "d">>), None}

StorePortArgs == {TInt(6379), TInt(70000), TStr(<<"8", "0">>), None}

DirectoryArgs ==
    {TStr(<<"/", "t", "m", "p">>), TStr(<<"/", "n", "o", "d", "i", "r">>), None}

\* a password or a file name, or no argument
NameArgs == {TStr(<<"f", ".", "r", "d", "b">>), None}

ModeArgs == {TStr(<<"a", "l", "w", "a", "y", "s">>), TStr(<<"b", "a", "d">>), None}

\* parse() called again on a live store: self.entries and self.comments are
\* rebound, the class-level list is appended to once more
Parse(i) ==
    /\ Step
    /\ store[i].alive
    /\ LET r == parse(store[i], entry_order, files[store[i].filename]) IN
       /\ entry_order' = r.order
       /\ store' = [store EXCEPT ![i] = r.st]
       /\ last' = Op("parse", i, <<>>, IF r.err = "" THEN "None" ELSE r.err)
    /\ UNCHANGED <<files, usrVars, prfVars>>

SetPassword(i, password) ==
    /\ store[i].alive
    /\ Setter("set_password", i, password, set_password(store[i], password))

SetDirectory(i, directory) ==
    /\ store[i].alive
    /\ Setter("set_directory", i, directory, set_directory(store[i], directory))

SetSnapshotSeconds(i, seconds) ==
    /\ store[i].alive
    /\ Setter("set_snapshot_seconds", i, seconds, set_snapshot_seconds(store[i], seconds))

SetSnapshotChanges(i, changes) ==
    /\ store[i].alive
    /\ Setter("set_snapshot_changes", i, changes, set_snapshot_changes(store[i], changes))

SetSnapshotFile(i, file) ==
    /\ store[i].alive
    /\ Setter("set_snapshot_file", i, file, set_snapshot_file(store[i], file))

SetAppendMode(i, mode) ==
    /\ store[i].alive
    /\ Setter("set_append_mode", i, mode, set_append_mode(store[i], mode))

SetAppendFile(i, file) ==
    /\ store[i].alive
    /\ Setter("set_append_file", i, file, set_append_file(store[i], file))

\* a fresh interpreter and one configuration file
InitStore ==
    /\ files \in { [f \in CfgNames |-> IF f = "redis.conf" THEN c ELSE OtherConf] :
                     c \in StoreFileSet }
    /\ entry_order = <<>>
    /\ store = [i \in Stores |-> NoStore]
    /\ nops = 0
    /\ last = Op("init", "", <<>>, "None")
    /\ InitUsersIdle
    /\ InitProfilesIdle

NextStore ==
    \/ Construct("s1", "redis.conf")
    \/ Parse("s1")
    \/ Write("s1")
    \/ \E k \in KeyArgs, v \in ValueArgs : SetConfigValue("s1", k, v)
    \/ \E ip \in StoreIpArgs : SetIpAddress("s1", ip)
    \/ \E p \in StorePortArgs : SetPort("s1", p)
    \/ \E p \in NameArgs : SetPassword("s1", p)
    \/ \E d \in DirectoryArgs : SetDirectory("s1", d)
    \/ \E n \in {TInt(60), None} : SetSnapshotSeconds("s1", n)
    \/ \E n \in {TInt(60), None} : SetSnapshotChanges("s1", n)
    \/ \E f \in NameArgs : SetSnapshotFile("s1", f)
    \/ \E m \in ModeArgs : SetAppendMode("s1", m)
    \/ \E f \in NameArgs : SetAppendFile("s1", f)

SpecStore == InitStore /\ [][NextStore]_vars

-----------------------------------------------------------------------------
(* RedisUsers.  User names, passwords and patterns are atoms here: the     *)
(* code only stores, compares and hashes them.                             *)

\* hashlib.sha256(bytes(password, "utf-8")).hexdigest(): the digest of a
\* password is a value of its own, never the password
sha256_hexdigest(password) == "sha256:" \o password

\* set_password without the hashing: the password itself is kept
User_set_password_plain(user, password) ==
    [user EXCEPT !.hash_password = password]

\* User.set_password
User_set_password(user, password) ==
    [user EXCEPT !.hash_password = sha256_hexdigest(password)]

\* User.__init__: the class attribute hash_password, sha256(b"password"),
\* stays when no password is given
User(status, keys, commands, password) ==
    LET u == [status |-> status, keys |-> keys, commands |-> commands,
              hash_password |-> sha256_hexdigest("password")]
    IN  IF password = "None" THEN u ELSE User_set_password(u, password)

\* User.parse_dict on a fresh User()
parse_dict(dict) ==
    [User("on", "*", "@all", "None") EXCEPT
        !.status = dict.status, !.keys = dict.keys,
        !.commands = dict.commands, !.hash_password = dict.hash_password]

\* User.get_user_dict: assigns self.status, then builds the dict; `user` is
\* the object afterwards
get_user_dict(user) ==
    LET u == [user EXCEPT !.status = "on"] IN
    [user |-> u,
     dict |-> [status |-> u.status, hash_password |-> u.hash_password,
               keys |-> u.keys, commands |-> u.commands]]

Regs == {"r1", "r2"}

NoReg == [alive |-> FALSE, filename |-> "", own |-> FALSE, users |-> EmptyDict]

NoFile == [exists |-> FALSE, data |-> EmptyDict]

File(data) == [exists |-> TRUE, data |-> data]

\* self.users: the instance's own dict once parse() has assigned one, the
\* class-level dict RedisUsers.users otherwise
UsersOf(regs, class_users, i) ==
    IF regs[i].own THEN regs[i].users ELSE class_users

users(i) == UsersOf(reg, cls_users, i)

\* RedisUsers.parse: the YAML mapping, each value replaced by a User
RedisUsers_parse(data) == [u \in DOMAIN data |-> parse_dict(data[u])]

\* RedisUsers.write: the mapping dumped, and the users afterwards
RedisUsers_write(us) ==
    [data  |-> [u \in DOMAIN us |-> get_user_dict(us[u]).dict],
     users |-> [u \in DOMAIN us |-> get_user_dict(us[u]).user]]

\* add_user without the membership test: an existing user is overwritten
add_user_overwriting(us, user, status, keys, commands, password) ==
    [users |-> DictSet(us, user, User(status, keys, commands, password)),
     ret |-> IF user \in DOMAIN us THEN "False" ELSE "True"]

add_user(us, user, status, keys, commands, password) ==
    IF user \in DOMAIN us THEN [users |-> us, ret |-> "False"]
    ELSE [users |-> DictSet(us, user, User(status, keys, commands, password)),
          ret |-> "True"]

\* RedisUsers.set_password: no return statement on the path that sets
RedisUsers_set_password(us, user, password) ==
    IF user \notin DOMAIN us THEN [users |-> us, ret |-> "False"]
    ELSE [users |-> [us EXCEPT ![user] = User_set_password(@, password)],
          ret |-> "None"]

remove_user(us, user) ==
    IF user \in DOMAIN us
    THEN [users |-> [u \in DOMAIN us \ {user} |-> us[u]], ret |-> "True"]
    ELSE [users |-> us, ret |-> "False"]

-----------------------------------------------------------------------------
(* apply_to_redis and the server it talks to. *)

UserNames == {"a", "b", "c"}

\* the order in which the dict and the server's list are iterated
UserOrder == <<"a", "b", "c">>

InOrder(S) == SelectSeq(UserOrder, LAMBDA n : n \in S)

\* db.acl_setuser(username=user, hashed_passwords=[f"+{hash}"],
\*                enabled=(status == "on"), keys=keys, commands=[f"+{commands}"])
acl_setuser(user, data) ==
    [cmd |-> "acl_setuser", user |-> user,
     attrs |-> [hashed_passwords |-> <<"+", data.hash_password>>,
                enabled |-> (data.status = "on"),
                keys |-> data.keys,
                commands |-> <<"+", data.commands>>]]

acl_deluser(user) == [cmd |-> "acl_deluser", user |-> user, attrs |-> <<>>]

\* the first loop without its `not in current_users` test: every declared
\* user is set again
ReconcileCommands_resetting(us, current_users) ==
    LET new  == InOrder(DOMAIN us)
        gone == SelectSeq(InOrder(current_users), LAMBDA u : u \notin DOMAIN us)
    IN  [k \in 1..Len(new) |-> acl_setuser(new[k], us[new[k]])]
        \o [k \in 1..Len(gone) |-> acl_deluser(gone[k])]

\* the commands the two loops send, given self.users and the list
\* acl_users() returned
ReconcileCommands(us, current_users) ==
    LET new  == SelectSeq(InOrder(DOMAIN us), LAMBDA u : u \notin current_users)
        gone == SelectSeq(InOrder(current_users), LAMBDA u : u \notin DOMAIN us)
    IN  [k \in 1..Len(new) |-> acl_setuser(new[k], us[new[k]])]
        \o [k \in 1..Len(gone) |-> acl_deluser(gone[k])]

\* the server's ACL table after it has carried out one command
Execute(srv, c) ==
    IF c.cmd = "acl_setuser" THEN DictSet(srv, c.user, c.attrs)
    ELSE [u \in DOMAIN srv \ {c.user} |-> srv[u]]

RECURSIVE ExecuteAll(_, _)
ExecuteAll(srv, cmds) ==
    IF cmds = <<>> THEN srv ELSE ExecuteAll(Execute(srv, Head(cmds)), Tail(cmds))

\* apply_to_redis with the exception of a command caught inside the loop:
\* the commands after the failing one are sent all the same
apply_to_redis_continuing(us, srv, fail) ==
    LET cmds == ReconcileCommands(us, DOMAIN srv) IN
    IF fail = 0 THEN [sent |-> cmds, server |-> ExecuteAll(srv, cmds), ret |-> "None"]
    ELSE IF fail = 1 THEN [sent |-> <<>>, server |-> srv, ret |-> "ConnectionError"]
    ELSE [sent   |-> cmds,
          server |-> ExecuteAll(srv, SubSeq(cmds, 1, fail - 2)
                                       \o SubSeq(cmds, fail, Len(cmds))),
          ret    |-> "ConnectionError"]

\* apply_to_redis when the fail-th call to the server raises (1 is
\* acl_users(), 2 the first command; 0: none does): the commands sent, the
\* server afterwards, the exception that reaches the caller
apply_to_redis(us, srv, fail) ==
    LET cmds == ReconcileCommands(us, DOMAIN srv) IN
    IF fail = 0 THEN [sent |-> cmds, server |-> ExecuteAll(srv, cmds), ret |-> "None"]
    ELSE IF fail = 1 THEN [sent |-> <<>>, server |-> srv, ret |-> "ConnectionError"]
    ELSE [sent   |-> SubSeq(cmds, 1, fail - 1),
          server |-> ExecuteAll(srv, SubSeq(cmds, 1, fail - 2)),
          ret    |-> "ConnectionError"]

-----------------------------------------------------------------------------
(* The users files and servers the model starts from, and the inputs.      *)

UFileNames == {"redis.users", "new.users"}

StatusArgs == {"on", "off"}

\* a record of a users file
UserDict(status) ==
    [status |-> status, hash_password |-> sha256_hexdigest("password"),
     keys |-> "*", commands |-> "@all"]

\* the YAML mappings over the users a and b
MappingSet ==
    UNION { [S -> {UserDict(st) : st \in StatusArgs}] : S \in SUBSET {"a", "b"} }

\* a user as the server lists it before the reconciliation
LiveUser == acl_setuser("", UserDict("on")).attrs

ServerSet == { [u \in S |-> LiveUser] : S \in SUBSET {"b", "c"} }

\* (status, password) pairs add_user is called with; keys and commands are
\* left at their defaults
AddArgs == {<<"on", "None">>, <<"off", "secret">>}

PasswordArgs == {"secret"}

-----------------------------------------------------------------------------
(* The operations on RedisUsers, one action per call. *)

UserStep == nops < MaxUserOps /\ nops' = nops + 1

\* self.users[...] = ..., del self.users[...]: the dict self.users names is
\* changed in place
AssignUsers(i, us) ==
    IF reg[i].own
    THEN reg' = [reg EXCEPT ![i].users = us] /\ UNCHANGED cls_users
    ELSE cls_users' = us /\ UNCHANGED reg

\* RedisUsers(filename): parse() runs only when the file exists
ConstructUsers(i, f) ==
    /\ UserStep
    /\ ~reg[i].alive
    /\ reg' = [reg EXCEPT ![i] =
                 IF ufiles[f].exists
                 THEN [alive |-> TRUE, filename |-> f, own |-> TRUE,
                       users |-> RedisUsers_parse(ufiles[f].data)]
                 ELSE [alive |-> TRUE, filename |-> f, own |-> FALSE,
                       users |-> EmptyDict]]
    /\ last' = Op("RedisUsers", i, f, "None")
    /\ UNCHANGED <<cfgVars, prfVars, ufiles, cls_users, server, acl_log>>

WriteUsers(i) ==
    /\ UserStep
    /\ reg[i].alive
    /\ LET r == RedisUsers_write(users(i)) IN
       /\ AssignUsers(i, r.users)
       /\ ufiles' = [ufiles EXCEPT ![reg[i].filename] = File(r.data)]
    /\ last' = Op("users_write", i, <<>>, "None")
    /\ UNCHANGED <<cfgVars, prfVars, server, acl_log>>

AddUser(i, user, a) ==
    /\ UserStep
    /\ reg[i].alive
    /\ LET r == add_user(users(i), user, a[1], "*", "@all", a[2]) IN
       /\ AssignUsers(i, r.users)
       /\ last' = Op("add_user", i, <<user, a[1], a[2]>>, r.ret)
    /\ UNCHANGED <<cfgVars, prfVars, ufiles, server, acl_log>>

SetUserPassword(i, user, password) ==
    /\ UserStep
    /\ reg[i].alive
    /\ LET r == RedisUsers_set_password(users(i), user, password) IN
       /\ AssignUsers(i, r.users)
       /\ last' = Op("users_set_password", i, <<user, password>>, r.ret)
    /\ UNCHANGED <<cfgVars, prfVars, ufiles, server, acl_log>>

RemoveUser(i, user) ==
    /\ UserStep
    /\ reg[i].alive
    /\ LET r == remove_user(users(i), user) IN
       /\ AssignUsers(i, r.users)
       /\ last' = Op("remove_user", i, user, r.ret)
    /\ UNCHANGED <<cfgVars, prfVars, ufiles, server, acl_log>>

ApplyToRedis(i, fail) ==
    /\ UserStep
    /\ reg[i].alive
    /\ fail <= 1 + Len(ReconcileCommands(users(i), DOMAIN server))
    /\ LET r == apply_to_redis(users(i), server, fail) IN
       /\ server' = r.server
       /\ acl_log' = r.sent
       /\ last' = Op("apply_to_redis", i, fail, r.ret)
    /\ UNCHANGED <<cfgVars, prfVars, ufiles, cls_users, reg>>

\* no configuration file or store takes part
InitConfigIdle ==
    /\ files = EmptyDict
    /\ entry_order = <<>>
    /\ store = EmptyDict

\* a fresh interpreter: the class-level dict is empty, no registry exists
InitUsers ==
    /\ ufiles \in { [f \in UFileNames |-> IF f = "redis.users" THEN c ELSE NoFile] :
                      c \in {NoFile} \cup {File(m) : m \in MappingSet} }
    /\ cls_users = EmptyDict
    /\ reg = [i \in Regs |-> NoReg]
    /\ server \in ServerSet
    /\ acl_log = <<>>
    /\ nops = 0
    /\ last = Op("init", "", <<>>, "None")
    /\ InitConfigIdle
    /\ InitProfilesIdle

NextUsers ==
    \E i \in Regs :
        \/ \E f \in UFileNames : ConstructUsers(i, f)
        \/ WriteUsers(i)
        \/ \E u \in UserNames, a \in AddArgs : AddUser(i, u, a)
        \/ \E u \in UserNames, p \in PasswordArgs : SetUserPassword(i, u, p)
        \/ \E u \in UserNames : RemoveUser(i, u)
        \/ \E fail \in 0..(1 + Cardinality(UserNames)) : ApplyToRedis(i, fail)

SpecUsers == InitUsers /\ [][NextUsers]_vars

-----------------------------------------------------------------------------
(* The configuration dictionaries the model starts from, and the           *)
(* construction of the profiles, one action per constructor.               *)

\* a container section with every field given, each with a value other
\* than the default
ContainerInput ==
    [format |-> "docker", image |-> "redis.sif", url |-> "docker://redis:7",
     config |-> "my.conf", config_dir |-> "./srv/", pfile |-> "srv.pf",
     pass_file |-> "my.pass", user_file |-> "my.users"]

FormatInput ==
    [command |-> "docker", run_command |-> "{command} run -d {image}",
     stop_command |-> "{command} stop", pull_command |-> "{command} pull {url}"]

ProcessInput == [status |-> "ps -p {pid}", kill |-> "kill -9 {pid}"]

\* the section absent, or present under the key name with any subset of
\* its fields
OptSection(name, full) ==
    {EmptyDict} \cup { name :> [k \in S |-> full[k]] : S \in SUBSET DOMAIN full }

FormatNames == {"singularity", "docker"}

\* the dictionaries: each of container and process absent or present, and
\* at most one per-format section
DataSet ==
    { c @@ p @@ f :
        c \in OptSection("container", ContainerInput),
        p \in OptSection("process", ProcessInput),
        f \in UNION { OptSection(n, FormatInput) : n \in FormatNames } }

\* the object a constructor call gives its caller; a profile is constructed
\* once from the dictionary, hence the guard last.op = "init" of the actions
ProfileStep(name, obj, ret) ==
    /\ profile' = obj
    /\ nops' = nops + 1
    /\ last' = Op(name, "", <<>>, ret)
    /\ UNCHANGED <<cfg_data, cfgVars, usrVars>>

ConstructServerConfig ==
    /\ last.op = "init"
    /\ LET r == ServerConfig(cfg_data) IN ProfileStep("ServerConfig", r.obj, r.ret)

ConstructContainerConfig ==
    /\ last.op = "init"
    /\ "container" \in DOMAIN cfg_data
    /\ ProfileStep("ContainerConfig", ContainerConfig(cfg_data["container"]), "None")

ConstructContainerFormatConfig(name) ==
    /\ last.op = "init"
    /\ name \in DOMAIN cfg_data
    /\ ProfileStep("ContainerFormatConfig", ContainerFormatConfig(cfg_data[name]), "None")

ConstructProcessConfig ==
    /\ last.op = "init"
    /\ "process" \in DOMAIN cfg_data
    /\ ProfileStep("ProcessConfig", ProcessConfig(cfg_data["process"]), "None")

InitProfiles ==
    /\ cfg_data \in DataSet
    /\ profile = None
    /\ nops = 0
    /\ last = Op("init", "", <<>>, "None")
    /\ InitConfigIdle
    /\ InitUsersIdle

NextProfiles ==
    \/ ConstructServerConfig
    \/ ConstructContainerConfig
    \/ \E n \in FormatNames : ConstructContainerFormatConfig(n)
    \/ ConstructProcessConfig

SpecProfiles == InitProfiles /\ [][NextProfiles]_vars

-----------------------------------------------------------------------------
(* Properties of RedisConfig, checked under SpecConfig. *)

\* the step is write() on the store whose construction was the step before
WriteRightAfterConstruct ==
    /\ last.op = "construct" /\ last.ret = "None"
    /\ last'.op = "write" /\ last'.id = last.id

\* C1: round-trip identity.  Constructing a RedisConfig on a file and
\* calling write() with no setter in between leaves the file byte-identical.
C1_RoundTripIdentity ==
    [][WriteRightAfterConstruct => files'[last.arg] = files[last.arg]]_vars

\* the claim's notion of a valid address: four pieces separated by dots,
\* each a run of digits with a value in 0..255
IsOctet(s) ==
    /\ s # <<>>
    /\ \A k \in 1..Len(s) : IsDigit(s[k])
    /\ DigitsVal(s) <= 255

IsDottedQuad(s) ==
    /\ Len(SplitOn(s, ".")) = 4
    /\ \A k \in 1..4 : IsOctet(SplitOn(s, ".")[k])

\* C3: set_ip_address rejects every string that is not a dotted quad of
\* four integers in 0..255: it returns false and the store is unchanged.
C3_InvalidIpRejected ==
    [][(last'.op = "set_ip_address" /\ ~IsDottedQuad(last'.arg.s))
         => (last'.ret = "False" /\ store' = store)]_vars

\* C4: on a store with a `port` entry, set_port(p) returns true exactly
\* when 0 < p < 65536; a rejected call leaves the entry unchanged; after an
\* accepted call get_port() returns the decimal string of p.
C4_SetPort ==
    [][(last'.op = "set_port" /\ PORT \in DOMAIN store[last'.id].entries)
         => LET i == last'.id
                p == last'.arg.n
            IN  /\ (last'.ret = "True") <=> (0 < p /\ p < 65536)
                /\ last'.ret # "True" => get_port(store'[i]) = get_port(store[i])
                /\ last'.ret = "True" => get_port(store'[i]) = TStr(IntStr(p))]_vars

SetterOps == {"set_config_value", "set_ip_address", "set_port"}

\* C5: schema-closed mutation.  set_config_value with a key that is not
\* among the parsed entries returns false and changes nothing; and no setter
\* call changes the set of entry keys of any store.
C5_SchemaClosed ==
    [][/\ (last'.op = "set_config_value"
             /\ last'.arg[1] \notin DOMAIN store[last'.id].entries)
          => (last'.ret = "False" /\ store' = store
                /\ entry_order' = entry_order /\ files' = files)
       /\ last'.op \in SetterOps
          => \A j \in Stores :
                store[j].alive
                  => /\ store'[j].alive
                     /\ DOMAIN store'[j].entries = DOMAIN store[j].entries]_vars

\* a set_config_value call on a key the store does not hold has returned false
C5_Witness ==
    /\ last.op = "set_config_value"
    /\ last.ret = "False"
    /\ store[last.id].entries # EmptyDict
    /\ last.arg[1] \notin DOMAIN store[last.id].entries

\* the claim's file: `save 900 1` followed by `save 300 10`
SaveConf == L_SAVE1 \o <<NL>> \o L_SAVE2 \o <<NL>>

\* C6: composite-key disambiguation.  Parsing `save 900 1`, `save 300 10`
\* yields exactly the entries save -> "900 1" and "save 300" -> "10", in
\* that order, and write() emits both lines again unchanged.
C6_CompositeKey ==
    [][(WriteRightAfterConstruct /\ files[last.arg] = SaveConf)
         => /\ DOMAIN store[last.id].entries = {SAVE, SAVE_300}
            /\ store[last.id].entries[SAVE] = TStr(<<"9", "0", "0", SP, "1">>)
            /\ store[last.id].entries[SAVE_300] = TStr(<<"1", "0">>)
            /\ entry_order = <<SAVE, SAVE_300>>
            /\ last'.ret = "None"
            /\ files'[last.arg] = SaveConf]_vars

\* C9: no sharing between instances.  An operation on one store changes
\* neither the fields of another store nor what that store's write() emits.
C9_NoSharing ==
    [][\A j \in Stores :
          (store[j].alive /\ last'.id # j)
            => /\ store'[j] = store[j]
               /\ write(store'[j], entry_order') = write(store[j], entry_order)]_vars

-----------------------------------------------------------------------------
(* Properties of one store and all its methods, checked under SpecStore. *)

TypedSetterOps ==
    {"set_ip_address", "set_port", "set_password", "set_directory",
     "set_snapshot_seconds", "set_snapshot_changes", "set_snapshot_file",
     "set_append_mode", "set_append_file"}

\* the entry a typed setter writes
SetterKey(op) ==
    CASE op = "set_ip_address" -> BIND
      [] op = "set_port" -> PORT
      [] op = "set_password" -> REQUIREPASS
      [] op = "set_directory" -> DIR
      [] op \in {"set_snapshot_seconds", "set_snapshot_changes"} -> SAVE
      [] op = "set_snapshot_file" -> DBFILENAME
      [] op = "set_append_mode" -> APPENDFSYNC
      [] op = "set_append_file" -> APPENDFILENAME

\* an argument the setter's own validation is meant to accept
ValidArg(op, arg) ==
    /\ arg # None
    /\ CASE op = "set_ip_address" -> arg.t = "str" /\ IsDottedQuad(arg.s)
         [] op = "set_port" -> arg.t = "int" /\ 0 < arg.n /\ arg.n < 65536
         [] op = "set_directory" -> arg.s \in ExistingDirs
         [] op = "set_append_mode" -> arg.s \in valid_modes
         [] OTHER -> TRUE

\* C11: every typed setter, called with a valid argument on a store whose
\* file lacks the setter's key, returns false and leaves the entries and
\* the changed flag as they were.
C11_MissingKeyRejected ==
    [][(/\ last'.op \in TypedSetterOps
        /\ ValidArg(last'.op, last'.arg)
        /\ SetterKey(last'.op) \notin DOMAIN store[last'.id].entries)
         => (last'.ret = "False" /\ store' = store)]_vars

\* C12: no typed setter ever raises: whatever the argument and the store,
\* the call ends by returning true or false.
C12_SettersNeverRaise ==
    last.op \in TypedSetterOps => last.ret \in {"True", "False"}

\* C17: store consistency.  For every store, entry_order holds each key of
\* entries exactly once and nothing else, comments has the same keys, and
\* so write() does not fail on a missing key.
C17_StoreConsistent ==
    \A i \in Stores :
        store[i].alive
          => /\ {entry_order[k] : k \in 1..Len(entry_order)} = DOMAIN store[i].entries
             /\ \A k1, k2 \in 1..Len(entry_order) :
                    entry_order[k1] = entry_order[k2] => k1 = k2
             /\ DOMAIN store[i].comments = DOMAIN store[i].entries
             /\ write(store[i], entry_order).err = ""

-----------------------------------------------------------------------------
(* Properties of the configuration profiles, checked under SpecProfiles. *)

ContainerDefaults ==
    [format |-> FORMAT, image |-> IMAGE_NAME, url |-> REDIS_URL,
     config |-> CONFIG_FILE, config_dir |-> CONFIG_DIR, pfile |-> PROCESS_FILE,
     pass_file |-> PASSWORD_FILE, user_file |-> USERS_FILE]

FormatDefaults ==
    [command |-> COMMAND, run_command |-> RUN_COMMAND,
     stop_command |-> STOP_COMMAND, pull_command |-> PULL_COMMAND]

ProcessDefaults == [status |-> STATUS_COMMAND, kill |-> KILL_COMMAND]

\* what a profile built from a section must read as: the input's value for
\* a field that is present, the default for one that is absent, and every
\* default when the section itself is absent
Expected(section, defaults) ==
    [k \in DOMAIN defaults |->
        IF section \in DOMAIN cfg_data /\ k \in DOMAIN cfg_data[section]
        THEN cfg_data[section][k] ELSE defaults[k]]

\* C16: profile defaults.  For every input dictionary, with any subset of
\* its sections and of the fields inside them, constructing ServerConfig,
\* ContainerConfig, ContainerFormatConfig or ProcessConfig succeeds and each
\* field reads as the input's value when present, as its default when absent.
C16_ProfileDefaults ==
    /\ last.op = "ServerConfig"
         => /\ last.ret = "None"
            /\ profile.container = Expected("container", ContainerDefaults)
            /\ profile.process = Expected("process", ProcessDefaults)
            /\ profile.container_format
                 = Expected(profile.container.format, FormatDefaults)
    /\ last.op = "ContainerConfig"
         => profile = Expected("container", ContainerDefaults)
    /\ last.op = "ProcessConfig"
         => profile = Expected("process", ProcessDefaults)
    /\ last.op = "ContainerFormatConfig"
         => \E n \in FormatNames : profile = Expected(n, FormatDefaults)

-----------------------------------------------------------------------------
(* Properties of RedisUsers, checked under SpecUsers. *)

\* how many commands `cmd` for `user` the log holds
Sent(log, cmd, user) ==
    Cardinality({k \in 1..Len(log) : log[k].cmd = cmd /\ log[k].user = user})

\* C2: reconciliation is a pure set-difference.  With D the declared users
\* and L the server's users before the call, apply_to_redis sends exactly
\* one create for each name in D \ L, exactly one delete for each name in
\* L \ D and nothing for a name in both, and the server's users are D
\* afterwards.
C2_ReconcileSetDifference ==
    [][(last'.op = "apply_to_redis" /\ last'.ret = "None")
         => LET D == DOMAIN users(last'.id)
                L == DOMAIN server
            IN  /\ \A n \in UserNames :
                     /\ Sent(acl_log', "acl_setuser", n) = IF n \in D \ L THEN 1 ELSE 0
                     /\ Sent(acl_log', "acl_deluser", n) = IF n \in L \ D THEN 1 ELSE 0
                /\ \A n \in D \cap L : server'[n] = server[n]
                /\ DOMAIN server' = D]_vars

\* the spec's example: declared {a, b}, live {b, c}: a created, c deleted,
\* b still there
C2_Witness ==
    /\ last.op = "apply_to_redis"
    /\ last.ret = "None"
    /\ DOMAIN users(last.id) = {"a", "b"}
    /\ Len(acl_log) = 2
    /\ acl_log[1].cmd = "acl_setuser" /\ acl_log[1].user = "a"
    /\ acl_log[2] = acl_deluser("c")
    /\ DOMAIN server = {"a", "b"}

\* the step is write() on the registry whose construction, on an existing
\* file, was the step before
UsersWriteRightAfterLoad ==
    /\ last.op = "RedisUsers" /\ ufiles[last.arg].exists
    /\ last'.op = "users_write" /\ last'.id = last.id

\* C7: load-write preservation.  Constructing a RedisUsers on a users file
\* and calling write() with no mutation in between leaves the file with the
\* same users, each with the same status, hash, keys and commands.
C7_LoadWritePreserves ==
    [][UsersWriteRightAfterLoad => ufiles'[last.arg] = ufiles[last.arg]]_vars

\* C8: add_user with a name already in the registry returns false and
\* leaves every user as it was; with a new name it returns true and adds
\* exactly that user.
C8_AddUserDuplicate ==
    [][last'.op = "add_user"
         => LET before == users(last'.id)
                after  == UsersOf(reg', cls_users', last'.id)
                name   == last'.arg[1]
            IN  IF name \in DOMAIN before
                THEN last'.ret = "False" /\ after = before
                ELSE /\ last'.ret = "True"
                     /\ DOMAIN after = DOMAIN before \cup {name}
                     /\ \A u \in DOMAIN before : after[u] = before[u]]_vars

\* add_user has been refused for a name the registry holds, with arguments
\* that differ from the user's fields
C8_Witness ==
    /\ last.op = "add_user"
    /\ last.ret = "False"
    /\ last.arg[1] \in DOMAIN users(last.id)
    /\ users(last.id)[last.arg[1]] # User(last.arg[2], "*", "@all", last.arg[3])

\* C10: a RedisUsers constructed on a file that does not exist has no
\* users, and its write() would serialize an empty mapping.
C10_MissingFileEmpty ==
    (last.op = "RedisUsers" /\ ~ufiles[last.arg].exists)
      => /\ DOMAIN users(last.id) = {}
         /\ DOMAIN RedisUsers_write(users(last.id)).data = {}


\* C13: a transport failure aborts the reconciliation.  When the call that
\* lists the users or a create/delete command fails, the failure reaches
\* the caller, no command is issued after the failing one, none is sent
\* twice, and the server holds exactly the effects of the commands
\* acknowledged before the failure; the registry is untouched.
C13_FailureAborts ==
    [][(last'.op = "apply_to_redis" /\ last'.arg # 0)
         => LET cmds == ReconcileCommands(users(last'.id), DOMAIN server)
                fail == last'.arg
            IN  /\ last'.ret = "ConnectionError"
                /\ acl_log' = SubSeq(cmds, 1, fail - 1)
                /\ \A k1, k2 \in 1..Len(acl_log') :
                       acl_log'[k1].user = acl_log'[k2].user => k1 = k2
                /\ server' = ExecuteAll(server, SubSeq(cmds, 1, fail - 2))
                /\ reg' = reg /\ cls_users' = cls_users]_vars

\* a reconciliation failed on its second command or later: the first
\* command's user is on the server, the failing command has had no effect
C13_Witness ==
    /\ last.op = "apply_to_redis"
    /\ last.ret = "ConnectionError"
    /\ Len(acl_log) >= 2
    /\ acl_log[1].cmd = "acl_setuser"
    /\ acl_log[1].user \in DOMAIN server
    /\ LET c == acl_log[Len(acl_log)] IN
       IF c.cmd = "acl_setuser" THEN c.user \notin DOMAIN server
       ELSE c.user \in DOMAIN server

\* C14: RedisUsers.set_password(name, password) returns true when name is
\* in the registry, and then only that user's hashed password changes;
\* it returns false when name is absent, and then the registry is unchanged.
C14_SetPasswordBoolean ==
    [][last'.op = "users_set_password"
         => LET i   == last'.id
                u   == last'.arg[1]
                us  == users(i)
                us2 == UsersOf(reg', cls_users', i)
            IN  IF u \in DOMAIN us
                THEN /\ last'.ret = "True"
                     /\ DOMAIN us2 = DOMAIN us
                     /\ \A v \in DOMAIN us :
                            /\ us2[v].status = us[v].status
                            /\ us2[v].keys = us[v].keys
                            /\ us2[v].commands = us[v].commands
                            /\ v # u => us2[v].hash_password = us[v].hash_password
                ELSE /\ last'.ret = "False"
                     /\ us2 = us]_vars

\* the dictionaries write() serializes for registry i
Serialized(regs, class_users, i) ==
    RedisUsers_write(UsersOf(regs, class_users, i)).data

\* the plaintext passwords the calls of the model supply
Plaintexts == PasswordArgs \cup ({a[2] : a \in AddArgs} \ {"None"})

UserFields == {"status", "hash_password", "keys", "commands"}

\* C15: the password is never stored in plaintext.  After add_user or
\* set_password, the dictionary write() serializes for each user holds as
\* hash_password the SHA-256 digest of the last password set for that user
\* (the default digest when add_user got none), every other user's digest
\* is as before, and no field of any user, in the registry's serialized
\* form or in a users file written, equals a plaintext that was supplied.
C15_NoPlaintext ==
    [][/\ last'.op \in {"add_user", "users_set_password"}
          => LET i      == last'.id
                 before == Serialized(reg, cls_users, i)
                 after  == Serialized(reg', cls_users', i)
                 u      == last'.arg[1]
                 p      == IF last'.op = "add_user" THEN last'.arg[3]
                           ELSE last'.arg[2]
                 isSet  == IF last'.op = "add_user" THEN last'.ret = "True"
                           ELSE u \in DOMAIN before
             IN  \A v \in DOMAIN after :
                    /\ after[v].hash_password
                         = IF v = u /\ isSet
                           THEN sha256_hexdigest(IF p = "None" THEN "password" ELSE p)
                           ELSE before[v].hash_password
                    /\ \A f \in UserFields : after[v][f] \notin Plaintexts
       /\ last'.op = "users_write"
          => LET written == ufiles'[reg[last'.id].filename].data IN
             /\ written = Serialized(reg, cls_users, last'.id)
             /\ \A v \in DOMAIN written, f \in UserFields :
                    written[v][f] \notin Plaintexts]_vars

\* a user whose password was set to "secret" has been written to the users
\* file, with the digest of "secret" as its hash_password
C15_Witness ==
    /\ last.op = "users_write"
    /\ \E v \in DOMAIN ufiles[reg[last.id].filename].data :
           ufiles[reg[last.id].filename].data[v].hash_password
               = sha256_hexdigest("secret")

=============================================================================
